---- MODULE Spec2Model ----
(***************************************************************************)
(* Asset hydration of the question bank viewer.                            *)
(*                                                                         *)
(* QuestionService.get_question (src/question_service.py) hydrates the     *)
(* body and then the explanation of a question with one shared list of     *)
(* inline assets.  _hydrate_html rewrites anchor placeholders in a first   *)
(* pass (replace_link_and_collect, recursing into page/table fragments)    *)
(* and media-embed placeholders in a second pass (replace_media_src).      *)
(* The asset stores are looked up through src/database_helpers.py.         *)
(*                                                                         *)
(* A text is a sequence of tokens: runs of plain markup, anchor            *)
(* placeholders <a href="[[id]]">link text</a> and media-embed             *)
(* placeholders src="[[id]]".  A link text is a sequence of characters.    *)
(***************************************************************************)
EXTENDS Integers, Sequences, FiniteSets, TLC

VARIABLES
    db,                 \* the Mongo collections: collection name -> id -> document
    question,           \* the Question model returned by _fetch_raw_question_by_id
    all_inline_assets,  \* the shared list of get_question
    stack,              \* the active _hydrate_html calls, innermost last
    pc,                 \* position of get_question
    log,                \* history of the callback invocations and recursive calls
    probe,              \* argument and result of a direct resolver call
    mongo,              \* Database wrapper: collection name -> documents in natural order
    conn,               \* the Database class: _instance and its client / db attributes
    calls,              \* history of the calls on services.py and database.py
    render,             \* argument and result of render_question_html
    session_state,      \* st.session_state of the viewer (main.py)
    viewer              \* the widgets of the viewer: their values, and what the last
                        \* script run put on the screen

\* The state of the hydration, and the state of the rest of the program
hydration == <<db, question, all_inline_assets, stack, pc, log, probe>>
others == <<mongo, conn, calls, render, session_state, viewer>>

vars == <<db, question, all_inline_assets, stack, pc, log, probe,
          mongo, conn, calls, render, session_state, viewer>>

----------------------------------------------------------------------------
(* Bounds of the model                                                     *)

\* Tokens of the body, the explanation and the markup of fragment "a" together
MaxTokens == 3
\* Nested _hydrate_html calls the interpreter allows (sys.getrecursionlimit)
RecursionLimit == 3
\* Calls on services.py or database.py in one run
MaxCalls == 3
\* The longest question text given to render_question_html, in characters
MaxText == 3
\* The most questions the Questions collection of the viewer holds
MaxQuestions == 25

----------------------------------------------------------------------------
(* models.py: AssetType, and the absent value                              *)

None == "None"

IMAGE == "image"
AUDIO == "audio"
VIDEO == "video"
PAGE == "page"
TABLE == "table"

FileKinds == {IMAGE, AUDIO, VIDEO}
ContentKinds == {PAGE, TABLE}
ContentColls == {"Pages", "Tables"}

Ids == {"", "a", "b"}

Collections == {"Images", "Audio", "Videos", "Pages", "Tables"}

----------------------------------------------------------------------------
(* Texts                                                                   *)

Txt(s) == [t |-> "txt", id |-> "", s |-> s, n |-> 0]
Anchor(id, s) == [t |-> "a", id |-> id, s |-> s, n |-> 0]
MediaSrc(id) == [t |-> "src", id |-> id, s |-> <<>>, n |-> 0]
\* <span ...>text<sup>[n]</sup></span>
Span(s, n) == [t |-> "span", id |-> "", s |-> s, n |-> n]
\* src="data:...;base64,..." of the file at path p
DataSrc(p) == [t |-> "datasrc", id |-> "", s |-> p, n |-> 0]
\* src=""
EmptySrc == [t |-> "emptysrc", id |-> "", s |-> <<>>, n |-> 0]

\* An anchor opening tag inside a link text: the lazy group 2 of link_pattern
\* runs to the first </a>, so it takes in the opening tag of an anchor nested
\* in the matched one.
OpenAnchor(id) == "<a href=\"[[" \o id \o "]]\">"

\* The link texts: plain, padded with white space, holding a nested anchor opening
LinkTexts == {<<"t">>, <<" ", "t", " ">>, <<"t", OpenAnchor("b")>>}

\* Ids of the media-embed placeholders: unknown, or a file or a fragment ("b")
MediaIds == {"", "b"}

Tokens(lt) == {Txt(<<"x">>)} \cup {Anchor(i, lt) : i \in Ids} \cup {MediaSrc(i) : i \in MediaIds}

IsSpace(c) == c = " "

RECURSIVE lstrip(_)
lstrip(s) == IF s # <<>> /\ IsSpace(Head(s)) THEN lstrip(Tail(s)) ELSE s

RECURSIVE rstrip(_)
rstrip(s) == IF s # <<>> /\ IsSpace(s[Len(s)]) THEN rstrip(SubSeq(s, 1, Len(s) - 1)) ELSE s

\* str.lstrip() in the place of str.strip()
strip_leading(s) == lstrip(s)

\* str.strip()
strip(s) == rstrip(lstrip(s))

----------------------------------------------------------------------------
(* The asset stores                                                        *)

\* The result of a find_one that matched nothing
NoDoc == [found |-> FALSE, name |-> <<>>, has_html |-> FALSE, html |-> <<>>]
\* A document of a file store carries a name, one of a fragment store its html
\* (has_html is FALSE when the document has no "html" field).
FileDoc(name) == [found |-> TRUE, name |-> name, has_html |-> FALSE, html |-> <<>>]
ContentDoc(has_html, html) == [found |-> TRUE, name |-> <<>>, has_html |-> has_html, html |-> html]

\* An optional string: Python's None, or a string
NoneStr == [some |-> FALSE, v |-> <<>>]
Some(v) == [some |-> TRUE, v |-> v]
\* Python truthiness of an optional string
Truthy(o) == o.some /\ o.v # <<>>

\* Database.get_collection(name).find_one({"_id": id}): a collection that the
\* database does not hold is empty.
find_one(d, collection_name, asset_id) ==
    IF collection_name \in DOMAIN d /\ asset_id \in DOMAIN d[collection_name]
    THEN d[collection_name][asset_id]
    ELSE NoDoc

get_asset_document_by_id(d, asset_id, collection_name) ==
    find_one(d, collection_name, asset_id)

\* A resolver that probes the fragment stores before the file stores
get_asset_type_fragments_first(d, asset_id) ==
    IF find_one(d, "Pages", asset_id).found THEN PAGE
    ELSE IF find_one(d, "Tables", asset_id).found THEN TABLE
    ELSE IF find_one(d, "Images", asset_id).found THEN IMAGE
    ELSE IF find_one(d, "Audio", asset_id).found THEN AUDIO
    ELSE IF find_one(d, "Videos", asset_id).found THEN VIDEO
    ELSE None

get_asset_type_from_db(d, asset_id) ==
    IF find_one(d, "Images", asset_id).found THEN IMAGE
    ELSE IF find_one(d, "Audio", asset_id).found THEN AUDIO
    ELSE IF find_one(d, "Videos", asset_id).found THEN VIDEO
    ELSE IF find_one(d, "Pages", asset_id).found THEN PAGE
    ELSE IF find_one(d, "Tables", asset_id).found THEN TABLE
    ELSE None

\* doc.get("html") if doc else None
get_content_asset_html(d, asset_id, asset_type) ==
    LET collection_name == IF asset_type = PAGE THEN "Pages" ELSE "Tables"
        doc == get_asset_document_by_id(d, asset_id, collection_name)
    IN  IF doc.found /\ doc.has_html THEN Some(doc.html) ELSE NoneStr

\* str.capitalize() of the AssetType values
capitalize(kind) ==
    CASE kind = IMAGE -> "Image"
      [] kind = AUDIO -> "Audio"
      [] kind = VIDEO -> "Video"
      [] kind = PAGE -> "Page"
      [] kind = TABLE -> "Table"

\* f"{asset_type.value.capitalize()}s"
CollectionName(asset_type) == capitalize(asset_type) \o "s"

\* The directory named as the collection is
FilePathOfCollection(asset_type, doc) == <<"assets", CollectionName(asset_type), doc.name>>

\* f"assets/{asset_type.value}s/{doc.get('name', '')}"
FilePath(asset_type, doc) == <<"assets", asset_type \o "s", doc.name>>

NoAsset ==
    [cls |-> "None", uuid |-> "", name |-> <<>>, asset_type |-> None,
     file_path |-> <<>>, html_content |-> <<>>, link_text |-> <<>>]

FileAsset(uuid, doc, asset_type, link_text) ==
    [cls |-> "FileAsset", uuid |-> uuid, name |-> doc.name, asset_type |-> asset_type,
     file_path |-> FilePath(asset_type, doc), html_content |-> <<>>, link_text |-> link_text]

ContentAsset(uuid, asset_type, html_content, link_text) ==
    [cls |-> "ContentAsset", uuid |-> uuid, name |-> link_text, asset_type |-> asset_type,
     file_path |-> <<>>, html_content |-> html_content, link_text |-> link_text]

----------------------------------------------------------------------------
(* _hydrate_html: the frame of one call                                    *)

\* Index of the first token of type ty after position pos, Len(text) + 1 if none:
\* the next match of link_pattern ("a") or media_pattern ("src").
NextMatch(text, pos, ty) ==
    LET hits == {j \in (pos + 1)..Len(text) : text[j].t = ty}
    IN  IF hits = {} THEN Len(text) + 1
        ELSE CHOOSE j \in hits : \A k \in hits : j <= k

\* A second pass that loses the text after the last match
ScanMediaDropTail(f) ==
    LET j == NextMatch(f.raw, f.pos, "src")
    IN  [f EXCEPT !.out = IF j > Len(f.raw) THEN f.out
                          ELSE f.out \o SubSeq(f.raw, f.pos + 1, j - 1),
                  !.pos = IF j > Len(f.raw) THEN Len(f.raw) ELSE j - 1]

\* re.sub copies the text between two matches unchanged.  The frame stops in
\* front of the next src="[[id]]" of the second pass, or at the end of the text.
ScanMedia(f) ==
    LET j == NextMatch(f.raw, f.pos, "src")
    IN  [f EXCEPT !.out = f.out \o SubSeq(f.raw, f.pos + 1, j - 1),
                  !.pos = IF j > Len(f.raw) THEN Len(f.raw) ELSE j - 1]

\* The frame stops in front of the next anchor placeholder of the first pass;
\* when there is none the first pass is over (processed_html) and the second
\* pass starts on its result.
ScanLinks(f) ==
    LET j == NextMatch(f.raw, f.pos, "a")
        copied == f.out \o SubSeq(f.raw, f.pos + 1, j - 1)
    IN  IF j <= Len(f.raw)
        THEN [f EXCEPT !.out = copied, !.pos = j - 1]
        ELSE ScanMedia([f EXCEPT !.phase = "media", !.raw = copied, !.out = <<>>, !.pos = 0])

\* Entry of _hydrate_html(raw_html, inline_assets, start_index).  The frame keeps
\* the argument raw_html and the value inline_assets had on entry.
NewFrame(raw_html, inline_assets, start_index) ==
    IF raw_html = <<>>
    THEN [phase |-> "media", raw_html |-> raw_html, raw |-> <<>>, pos |-> 0, out |-> <<>>,
          start_index |-> start_index, current_asset_index |-> start_index,
          entry_assets |-> inline_assets]
    ELSE ScanLinks([phase |-> "links", raw_html |-> raw_html, raw |-> raw_html, pos |-> 0,
                    out |-> <<>>, start_index |-> start_index,
                    current_asset_index |-> start_index, entry_assets |-> inline_assets])

\* Both passes are over: the call returns f.out (final_html).
Finished(f) == f.phase = "media" /\ f.pos = Len(f.raw)

----------------------------------------------------------------------------
(* Initial states                                                          *)

NoQuestion ==
    [found |-> FALSE, raw_question_html |-> <<>>, raw_explanation_html |-> <<>>,
     processed_question_html |-> <<>>, processed_explanation_html |-> <<>>,
     inline_assets |-> <<>>]

\* Question(...) as built by _fetch_raw_question_by_id
Question(body, explanation) ==
    [found |-> TRUE, raw_question_html |-> body, raw_explanation_html |-> explanation,
     processed_question_html |-> <<>>, processed_explanation_html |-> <<>>,
     inline_assets |-> <<>>]

\* A database that holds id "a" in collection Pages and id "b" in collection cb.
MakeDb(da, cb, dc) ==
    [c \in Collections |->
        [i \in {x \in {"a", "b"} : (x = "a" /\ c = "Pages") \/ (x = "b" /\ c = cb)} |->
            IF i = "a" THEN da ELSE dc]]

\* Id "b" is a file of one of the three kinds, or a table that refers to "a".
Placements(lt) ==
    {<<"Images", FileDoc(<<"i">>)>>, <<"Audio", FileDoc(<<"s">>)>>,
     <<"Videos", FileDoc(<<"v">>)>>, <<"Tables", ContentDoc(TRUE, <<Anchor("a", lt)>>)>>}

\* The texts of n tokens
TextsOfLen(lt, n) == [1..n -> Tokens(lt)]

\* database.py, services.py and the viewer before anything ran: no Database
\* instance, empty collections, the session state of a first script run
NoInstance == [_instance |-> 0, has_client |-> FALSE, client |-> 0, db |-> 0, made |-> 0]
NoRender ==
    [called |-> FALSE, env |-> "", text |-> <<>>, media_placeholders |-> <<>>,
     raised |-> FALSE, html |-> <<>>]
FirstSessionState ==
    [selected_question_id |-> "None", current_page |-> 1, total_questions |-> 0,
     last_query |-> "", page_size |-> 20, selected_answer |-> 0,
     submitted |-> FALSE, show_explanation |-> FALSE]
\* The viewer before its first script run: the filters are empty, nothing is on
\* the screen
NoScreen ==
    [has_status |-> FALSE, query |-> "", radio |-> 0, view |-> "start",
     controls |-> FALSE, items |-> FALSE, choice |-> FALSE, submit |-> FALSE,
     back |-> FALSE, pending |-> TRUE, event |-> ""]
OthersIdle ==
    /\ mongo = <<>>
    /\ conn = NoInstance
    /\ calls = <<>>
    /\ render = NoRender
    /\ session_state = FirstSessionState
    /\ viewer = NoScreen

NoProbe == [called |-> FALSE, asset_id |-> "", result |-> None]

\* The body, the explanation and the markup of page "a" are any texts of at most
\* MaxTokens tokens together (the page may also lack its html field); the empty
\* id is in no store.
Init ==
    /\ \E lt \in LinkTexts, kb \in 0..MaxTokens, ke \in 0..MaxTokens, kf \in 0..MaxTokens :
        /\ kb + ke + kf <= MaxTokens
        /\ \E body \in TextsOfLen(lt, kb), explanation \in TextsOfLen(lt, ke),
              html \in TextsOfLen(lt, kf), p \in Placements(lt) :
            /\ \E has_html \in (IF kf = 0 THEN BOOLEAN ELSE {TRUE}) :
                db = MakeDb(ContentDoc(has_html, html), p[1], p[2])
            /\ question \in (IF kb + ke = 0 THEN {NoQuestion} ELSE {}) \cup
                  {Question(body, explanation)}
    /\ all_inline_assets = <<>>
    /\ stack = <<>>
    /\ pc = "start"
    /\ log = <<>>
    /\ probe = NoProbe
    /\ OthersIdle

----------------------------------------------------------------------------
(* get_question and the callbacks of _hydrate_html                         *)

Top == stack[Len(stack)]

\* The field get_question is hydrating
Field == pc

\* The hydrated body assigned to the raw field
SetRawQuestion(q, html) == [q EXCEPT !.raw_question_html = html]
\* question.processed_question_html = ...
SetProcessedQuestion(q, html) == [q EXCEPT !.processed_question_html = html]

\* current_asset_index += 1 for every anchor, recorded or not
IndexAlwaysAdvanced(current_asset_index, recorded) == current_asset_index + 1
\* current_asset_index += 1, on the path that records an asset only
IndexAfterLink(current_asset_index, recorded) ==
    IF recorded THEN current_asset_index + 1 ELSE current_asset_index

\* inline_assets.insert(0, asset_object)
PrependAsset(inline_assets, asset_object) == <<asset_object>> \o inline_assets
\* inline_assets.append(asset_object)
AppendAsset(inline_assets, asset_object) == Append(inline_assets, asset_object)

\* The ordinal written into the <sup> of the marker
MarkerOrdinal(current_asset_index) == current_asset_index + 1

\* The start_index argument of the recursive call
NestedStartIndex(inline_assets, current_asset_index) == Len(inline_assets)

\* An explanation whose numbering restarts
ExplanationStartIndexRestart(inline_assets) == 0

\* The start_index argument of the explanation's call
ExplanationStartIndex(inline_assets) == Len(inline_assets)

\* replace_link_and_collect on a file-backed kind: the FileAsset, or no asset
LoadFileAsset(d, asset_id, asset_type, original_text) ==
    LET doc == get_asset_document_by_id(d, asset_id, CollectionName(asset_type))
    IN  IF doc.found THEN FileAsset(asset_id, doc, asset_type, original_text) ELSE NoAsset

\* replace_media_src recording the file as replace_link_and_collect does
AssetsAfterMediaRecorded(inline_assets, asset_id, asset_type, doc) ==
    IF doc.found THEN Append(inline_assets, FileAsset(asset_id, doc, asset_type, <<>>))
    ELSE inline_assets

\* replace_media_src has no statement on inline_assets
AssetsAfterMedia(inline_assets, asset_id, asset_type, doc) == inline_assets

\* replace_media_src giving the match back when the file cannot be opened
MediaReplacementKeepsMatch(asset_id, asset_type, doc, opened) ==
    IF doc.found
    THEN IF opened THEN DataSrc(FilePath(asset_type, doc)) ELSE MediaSrc(asset_id)
    ELSE EmptySrc

\* The src attribute replace_media_src returns: the data URI of the file, or
\* src="" when open() raises FileNotFoundError (opened is FALSE) and when the
\* id has no document of a file-backed kind
MediaReplacement(asset_id, asset_type, doc, opened) ==
    IF doc.found
    THEN IF opened THEN DataSrc(FilePath(asset_type, doc)) ELSE EmptySrc
    ELSE EmptySrc

\* A dangling anchor that keeps a marker
PlainReplacementMarked(original_text) == Span(original_text, 0)

\* The text a dangling anchor is replaced by
PlainReplacement(original_text) == Txt(original_text)

\* The anchor match the frame f stands in front of
Match(f) == f.raw[f.pos + 1]

\* A recursive call for every anchor
AlwaysNested(f) == TRUE

\* A recursive call for every page and table, with markup or without
NestedForFragments(f) == get_asset_type_from_db(db, Match(f).id) \in ContentKinds

\* replace_link_and_collect needs the recursive call for this match
NeedsNested(f) ==
    LET asset_type == get_asset_type_from_db(db, Match(f).id)
    IN  /\ asset_type \in ContentKinds
        /\ Truthy(get_content_asset_html(db, Match(f).id, asset_type))

\* get_question up to the first call of _hydrate_html
GetQuestion ==
    /\ pc = "start"
    /\ IF ~question.found
       THEN /\ pc' = "done"
            /\ stack' = stack
       ELSE /\ pc' = "body"
            /\ stack' = <<NewFrame(question.raw_question_html, <<>>, 0)>>
    /\ all_inline_assets' = <<>>
    /\ UNCHANGED <<db, question, log, probe, others>>

\* replace_link_and_collect without a recursive call: unresolved id, file-backed
\* kind, or a fragment without markup
ReplaceLink ==
    /\ pc \in {"body", "expl"}
    /\ Top.phase = "links"
    /\ ~NeedsNested(Top)
    /\ LET f == Top
           asset_id == Match(f).id
           original_text == strip(Match(f).s)
           asset_type == get_asset_type_from_db(db, asset_id)
           asset_object ==
               IF asset_type \in FileKinds
               THEN LoadFileAsset(db, asset_id, asset_type, original_text)
               ELSE NoAsset
           recorded == asset_object.cls # "None"
           replacement ==
               IF recorded
               THEN Span(original_text, MarkerOrdinal(f.current_asset_index))
               ELSE PlainReplacement(original_text)
           index == IndexAfterLink(f.current_asset_index, recorded)
       IN  /\ all_inline_assets' =
                IF recorded THEN AppendAsset(all_inline_assets, asset_object)
                ELSE all_inline_assets
           /\ stack' = [stack EXCEPT ![Len(stack)] =
                ScanLinks([f EXCEPT !.out = Append(f.out, replacement), !.pos = f.pos + 1,
                                    !.current_asset_index = index])]
           /\ log' = Append(log,
                [e |-> "link", field |-> Field, depth |-> Len(stack), id |-> asset_id,
                 text |-> Match(f).s, kind |-> asset_type, recorded |-> recorded,
                 ord |-> replacement.n, pos |-> Len(all_inline_assets'),
                 idx0 |-> f.current_asset_index, idx1 |-> index,
                 len0 |-> Len(all_inline_assets), repl |-> replacement,
                 asset |-> asset_object])
    /\ UNCHANGED <<db, question, pc, probe, others>>

\* replace_link_and_collect on a fragment with markup: the recursive call
CallNested ==
    /\ pc \in {"body", "expl"}
    /\ Top.phase = "links"
    /\ NeedsNested(Top)
    /\ Len(stack) < RecursionLimit
    /\ LET f == Top
           asset_id == Match(f).id
           asset_type == get_asset_type_from_db(db, asset_id)
           html_content == get_content_asset_html(db, asset_id, asset_type)
           start == NestedStartIndex(all_inline_assets, f.current_asset_index)
       IN  /\ stack' = Append(stack, NewFrame(html_content.v, all_inline_assets, start))
           /\ log' = Append(log,
                [e |-> "call", field |-> Field, depth |-> Len(stack), id |-> asset_id,
                 start |-> start, idx0 |-> f.current_asset_index,
                 len0 |-> Len(all_inline_assets)])
    /\ UNCHANGED <<db, question, all_inline_assets, pc, probe, others>>

\* The interpreter refuses the recursive call: RecursionError leaves get_question
RaiseRecursionError ==
    /\ pc \in {"body", "expl"}
    /\ Top.phase = "links"
    /\ NeedsNested(Top)
    /\ Len(stack) >= RecursionLimit
    /\ pc' = "RecursionError"
    /\ UNCHANGED <<db, question, all_inline_assets, stack, log, probe, others>>

\* The recursive call returns: replace_link_and_collect builds the ContentAsset,
\* appends it and writes the marker
ReturnNested ==
    /\ pc \in {"body", "expl"}
    /\ Len(stack) > 1
    /\ Finished(Top)
    /\ LET f == stack[Len(stack) - 1]
           asset_id == Match(f).id
           original_text == strip(Match(f).s)
           asset_type == get_asset_type_from_db(db, asset_id)
           asset_object == ContentAsset(asset_id, asset_type, Top.out, original_text)
           replacement == Span(original_text, MarkerOrdinal(f.current_asset_index))
           index == IndexAfterLink(f.current_asset_index, TRUE)
       IN  /\ all_inline_assets' = AppendAsset(all_inline_assets, asset_object)
           /\ stack' = SubSeq(stack, 1, Len(stack) - 2) \o
                <<ScanLinks([f EXCEPT !.out = Append(f.out, replacement), !.pos = f.pos + 1,
                                      !.current_asset_index = index])>>
           /\ log' = Append(log,
                [e |-> "link", field |-> Field, depth |-> Len(stack) - 1, id |-> asset_id,
                 text |-> Match(f).s, kind |-> asset_type, recorded |-> TRUE,
                 ord |-> replacement.n, pos |-> Len(all_inline_assets'),
                 idx0 |-> f.current_asset_index, idx1 |-> index,
                 len0 |-> Len(all_inline_assets), repl |-> replacement,
                 asset |-> asset_object])
    /\ UNCHANGED <<db, question, pc, probe, others>>

\* replace_media_src: open() finds the file or raises FileNotFoundError
ReplaceMediaSrc ==
    /\ pc \in {"body", "expl"}
    /\ Top.phase = "media"
    /\ ~Finished(Top)
    /\ \E opened \in BOOLEAN :
        LET f == Top
            asset_id == Match(f).id
            asset_type == get_asset_type_from_db(db, asset_id)
            doc == IF asset_type \in FileKinds
                   THEN get_asset_document_by_id(db, asset_id, CollectionName(asset_type))
                   ELSE NoDoc
            replacement == MediaReplacement(asset_id, asset_type, doc, opened)
        IN  /\ all_inline_assets' = AssetsAfterMedia(all_inline_assets, asset_id, asset_type, doc)
            /\ stack' = [stack EXCEPT ![Len(stack)] =
                 ScanMedia([f EXCEPT !.out = Append(f.out, replacement), !.pos = f.pos + 1])]
            /\ log' = Append(log,
                 [e |-> "media", field |-> Field, depth |-> Len(stack), id |-> asset_id,
                  kind |-> asset_type, found |-> doc.found, read |-> doc.found /\ opened,
                  repl |-> replacement,
                  len0 |-> Len(all_inline_assets), idx0 |-> f.current_asset_index])
    /\ UNCHANGED <<db, question, pc, probe, others>>

\* The body's call returns; get_question calls _hydrate_html on the explanation
ReturnBody ==
    /\ pc = "body"
    /\ Len(stack) = 1
    /\ Finished(Top)
    /\ question' = SetProcessedQuestion(question, Top.out)
    /\ stack' = <<NewFrame(question.raw_explanation_html, all_inline_assets,
                           ExplanationStartIndex(all_inline_assets))>>
    /\ pc' = "expl"
    /\ UNCHANGED <<db, all_inline_assets, log, probe, others>>

\* The explanation's call returns; get_question returns the question
ReturnExplanation ==
    /\ pc = "expl"
    /\ Len(stack) = 1
    /\ Finished(Top)
    /\ question' = [question EXCEPT !.processed_explanation_html = Top.out,
                                    !.inline_assets = all_inline_assets]
    /\ stack' = <<>>
    /\ pc' = "done"
    /\ UNCHANGED <<db, all_inline_assets, log, probe, others>>

Next ==
    \/ GetQuestion
    \/ ReplaceLink
    \/ CallNested
    \/ RaiseRecursionError
    \/ ReturnNested
    \/ ReplaceMediaSrc
    \/ ReturnBody
    \/ ReturnExplanation

Spec == Init /\ [][Next]_vars

----------------------------------------------------------------------------
(* The resolver alone, over every placement of the ids in the stores        *)

\* The document a collection holds for an id
StoreDoc(c) == IF c \in ContentColls THEN ContentDoc(TRUE, <<Txt(<<"x">>)>>) ELSE FileDoc(<<"n">>)

InitResolver ==
    /\ \E held \in [Collections -> SUBSET Ids] :
        db = [c \in Collections |-> [i \in held[c] |-> StoreDoc(c)]]
    /\ question = NoQuestion
    /\ all_inline_assets = <<>>
    /\ stack = <<>>
    /\ pc = "resolver"
    /\ log = <<>>
    /\ probe = NoProbe
    /\ OthersIdle

\* One call of get_asset_type_from_db
ResolveKind ==
    /\ \E asset_id \in Ids :
        probe' = [called |-> TRUE, asset_id |-> asset_id,
                  result |-> get_asset_type_from_db(db, asset_id)]
    /\ UNCHANGED <<db, question, all_inline_assets, stack, pc, log, others>>

NextResolver == ResolveKind

SpecResolver == InitResolver /\ [][NextResolver]_vars

----------------------------------------------------------------------------
(* Properties                                                              *)

\* The anchors replace_link_and_collect has handled so far
Links == {k \in DOMAIN log : log[k].e = "link"}
\* Those it has recorded in the shared list
Recorded == {k \in Links : log[k].recorded}
RecordedIn(fld) == {k \in Recorded : log[k].field = fld}
Calls == {k \in DOMAIN log : log[k].e = "call"}

\* C1: the ordinal in the marker of a recorded image, audio or video anchor is the
\* 1-based position of its FileAsset in the shared list right after the append.
C1_FileOrdinalIsPosition ==
    \A k \in Recorded : log[k].kind \in FileKinds => log[k].ord = log[k].pos

\* C2: the ordinal in the marker of a recorded page or table anchor is the
\* 1-based position of its ContentAsset in the shared list right after the append.
C2_ContentOrdinalIsPosition ==
    \A k \in Recorded : log[k].kind \in ContentKinds => log[k].ord = log[k].pos

\* C3: within one get_question call the ordinals of the recorded anchors strictly
\* increase in processing order, so no two recorded anchors share an ordinal.
C3_OrdinalsStrictlyIncrease ==
    \A j \in Recorded : \A k \in Recorded : j < k => log[j].ord < log[k].ord

\* C4: the explanation is hydrated after the body on the same list; its first
\* recorded anchor gets ordinal N + 1, N the number of assets the body hydration
\* appended, and no explanation ordinal falls back below N + 1.
C4_CrossFieldContinuity ==
    LET N == Cardinality(RecordedIn("body"))
        E == RecordedIn("expl")
        E1 == {k \in E : log[k].depth = 1}
    IN  /\ \A k \in E : \A j \in RecordedIn("body") : j < k
        /\ \A k \in E : log[k].ord >= N + 1
        /\ \A k \in E : (\A j \in E : k <= j) => log[k].ord = N + 1
        /\ \A k \in E1 : (\A j \in E1 : k <= j) => log[k].ord = N + 1
        /\ pc \in {"expl", "done"} => Len(all_inline_assets) = N + Cardinality(E)

\* C4 happens: the body appended at least two assets and the explanation recorded one.
C4_Witness ==
    /\ pc = "done"
    /\ Cardinality(RecordedIn("body")) >= 2
    /\ RecordedIn("expl") # {}

NoPlaceholders(text) == \A k \in DOMAIN text : text[k].t = "txt"

\* C5: a call of _hydrate_html on a text without anchor and media-embed
\* placeholders returns the text unchanged and leaves the shared list as it was
\* on entry.
C5_NoPlaceholderIsIdentity ==
    (pc \in {"body", "expl"} /\ Finished(Top) /\ NoPlaceholders(Top.raw_html))
        => (Top.out = Top.raw_html /\ all_inline_assets = Top.entry_assets)

\* C5 happens: a nested call on a non-empty plain text returns while the shared
\* list is not empty.
C5_Witness ==
    /\ pc \in {"body", "expl"}
    /\ Len(stack) = 2
    /\ Finished(Top)
    /\ NoPlaceholders(Top.raw_html)
    /\ Top.raw_html # <<>>
    /\ all_inline_assets # <<>>

ProbeOrder == <<"Images", "Audio", "Videos", "Pages", "Tables">>
ProbeKind == <<IMAGE, AUDIO, VIDEO, PAGE, TABLE>>
Holding(asset_id) == {k \in 1..5 : asset_id \in DOMAIN db[ProbeOrder[k]]}

\* C7: get_asset_type_from_db returns the kind of the first store, in the order
\* image, audio, video, page, table, that holds the id, and None when no store does.
C7_FirstStoreWins ==
    probe.called =>
        LET H == Holding(probe.asset_id)
        IN  IF H = {} THEN probe.result = None
            ELSE \E k \in H : (\A j \in H : k <= j) /\ probe.result = ProbeKind[k]

\* C7 happens: the id is in a fragment store and in a file store.
C7_Witness ==
    /\ probe.called
    /\ Holding(probe.asset_id) = {2, 4, 5}
    /\ probe.result = AUDIO

\* The store get_asset_type_from_db finds a file-backed kind in
StoreOfKind(kind) ==
    CASE kind = IMAGE -> "Images" [] kind = AUDIO -> "Audio" [] kind = VIDEO -> "Videos"

\* C8: every anchor whose id is classified image, audio or video, the document
\* being in the store that classified it, is recorded: a FileAsset of that kind is
\* appended and the anchor becomes the numbered marker.
C8_FileKindsAreRecorded ==
    \A k \in Links :
        (log[k].kind \in FileKinds /\ log[k].id \in DOMAIN db[StoreOfKind(log[k].kind)])
            => (/\ log[k].recorded
                /\ log[k].asset.cls = "FileAsset"
                /\ log[k].asset.asset_type = log[k].kind
                /\ log[k].repl.t = "span")

\* C9: the recursive call on a page or table anchor gets a start index equal to
\* the caller's running index at that moment.
C9_NestedStartIsRunningIndex ==
    \A k \in Calls : log[k].start = log[k].idx0

\* C10: get_question never ends in a RecursionError, also when a fragment refers
\* to itself directly or through other fragments.
C10_RecursionIsBounded == pc # "RecursionError"

\* The recursive call whose return recorded the page or table anchor k
CallOf(k) == CHOOSE c \in Calls :
    /\ c < k
    /\ log[c].depth = log[k].depth
    /\ \A d \in Calls : (d < k /\ log[d].depth = log[k].depth) => d <= c
\* The anchors recorded from inside the fragment of k, at any depth
NestedIn(k) == {j \in Recorded : CallOf(k) < j /\ j < k}

\* C11: in the shared list a ContentAsset stands before the assets recorded from
\* inside its fragment, the assets of the body stand before those of the
\* explanation, and anchors of one text stand in their left-to-right order.
C11_OuterBeforeNested ==
    /\ \A k \in Recorded : all_inline_assets[log[k].pos] = log[k].asset
    /\ \A k \in Recorded : log[k].kind \in ContentKinds =>
            \A j \in NestedIn(k) : log[k].pos < log[j].pos
    /\ \A j \in RecordedIn("body") : \A k \in RecordedIn("expl") : log[j].pos < log[k].pos
    /\ \A j \in Recorded : \A k \in Recorded :
            (j < k /\ log[j].field = log[k].field /\ log[j].depth = log[k].depth)
                => log[j].pos < log[k].pos

\* What the code does keep of C11: a ContentAsset stands after the assets of
\* its fragment, and the other two orders hold.
C11_NestedBeforeOuter ==
    /\ \A k \in Recorded : all_inline_assets[log[k].pos] = log[k].asset
    /\ \A k \in Recorded : log[k].kind \in ContentKinds =>
            \A j \in NestedIn(k) : log[j].pos < log[k].pos
    /\ \A j \in RecordedIn("body") : \A k \in RecordedIn("expl") : log[j].pos < log[k].pos
    /\ \A j \in Recorded : \A k \in Recorded :
            (j < k /\ log[j].field = log[k].field /\ log[j].depth = log[k].depth)
                => log[j].pos < log[k].pos

\* C12: during one get_question call the shared list only grows at its end: the
\* list before a step is a prefix of the list after it, so no entry is removed,
\* replaced or reordered.
C12_ListIsAppendOnly ==
    [][/\ Len(all_inline_assets) <= Len(all_inline_assets')
       /\ SubSeq(all_inline_assets', 1, Len(all_inline_assets)) = all_inline_assets]_vars

\* C12 happens: the body, a fragment and the explanation each appended to the list.
C12_Witness ==
    /\ pc = "done"
    /\ \E k \in RecordedIn("body") : log[k].depth = 1
    /\ \E k \in Recorded : log[k].depth = 2
    /\ \E k \in RecordedIn("expl") : log[k].len0 >= 2

\* The anchor openings with a placeholder that a link text can hold
OpenAnchors == {OpenAnchor(id) : id \in Ids}
\* A hydrated text holds no placeholder: no anchor and no media-embed token, and
\* no anchor opening with a [[id]] target inside an emitted link text
Hydrated(text) ==
    \A k \in DOMAIN text :
        /\ text[k].t \notin {"a", "src"}
        /\ text[k].t \in {"txt", "span"} =>
                \A i \in DOMAIN text[k].s : text[k].s[i] \notin OpenAnchors

\* C13: the html_content of every ContentAsset in the shared list holds no
\* un-hydrated placeholder: every anchor and every media-embed placeholder of the
\* fragment's stored markup was rewritten, so no [[id]] target remains.
C13_ContentIsHydrated ==
    \A k \in DOMAIN all_inline_assets :
        all_inline_assets[k].cls = "ContentAsset" => Hydrated(all_inline_assets[k].html_content)

\* The part of C13 that holds: no anchor and no media-embed placeholder that the
\* two patterns match is left in the html_content of a ContentAsset.
C13_MatchedPlaceholdersRewritten ==
    \A k \in DOMAIN all_inline_assets :
        all_inline_assets[k].cls = "ContentAsset" =>
            \A i \in DOMAIN all_inline_assets[k].html_content :
                all_inline_assets[k].html_content[i].t \notin {"a", "src"}

\* The number of entries the anchors of a text stand for, counted per occurrence
\* and through the fragments: one for each anchor of a file-backed kind in
\* kinds, one for each anchor of a fragment with markup plus those of its markup.
RECURSIVE ExpectedEntries(_, _, _, _)
ExpectedEntries(d, text, kinds, fuel) ==
    IF text = <<>> \/ fuel = 0 THEN 0
    ELSE LET tok == Head(text)
             kind == IF tok.t = "a" THEN get_asset_type_from_db(d, tok.id) ELSE None
             html == IF kind \in ContentKinds
                     THEN get_content_asset_html(d, tok.id, kind)
                     ELSE NoneStr
             own == IF kind \in kinds THEN 1
                    ELSE IF Truthy(html)
                         THEN 1 + ExpectedEntries(d, html.v, kinds, fuel - 1)
                         ELSE 0
         IN  own + ExpectedEntries(d, Tail(text), kinds, fuel)

\* C14: the list get_question returns holds exactly one entry per anchor
\* occurrence that resolves to an image, audio or video document or to a page or
\* table with markup, counted per occurrence and through the fragments, without
\* merging entries of the same id.
C14_OneEntryPerOccurrence ==
    (pc = "done" /\ question.found) =>
        Len(question.inline_assets) =
            ExpectedEntries(db, question.raw_question_html, FileKinds, RecursionLimit)
            + ExpectedEntries(db, question.raw_explanation_html, FileKinds, RecursionLimit)

\* What the code keeps of C14: the count holds when audio anchors, which are not
\* recorded, are left out.
C14_OneEntryExceptAudio ==
    (pc = "done" /\ question.found) =>
        Len(question.inline_assets) =
            ExpectedEntries(db, question.raw_question_html, {IMAGE, VIDEO}, RecursionLimit)
            + ExpectedEntries(db, question.raw_explanation_html, {IMAGE, VIDEO}, RecursionLimit)

\* The media-embed placeholders replace_media_src has handled so far
Medias == {k \in DOMAIN log : log[k].e = "media"}

\* C15: a media-embed placeholder adds no entry to the shared list and does not
\* advance the running index, whatever its id resolves to; the step rewrites the
\* src attribute only and copies the tokens that are no placeholder as they are.
C15_MediaEmbedIsNotRecorded ==
    [][(/\ pc \in {"body", "expl"}
        /\ Top.phase = "media"
        /\ ~Finished(Top))
       => (/\ all_inline_assets' = all_inline_assets
           /\ Len(stack') = Len(stack)
           /\ stack'[Len(stack)].current_asset_index = Top.current_asset_index
           /\ log'[Len(log')].repl.t \in {"datasrc", "emptysrc"}
           /\ \A k \in DOMAIN stack'[Len(stack)].out :
                IF Top.raw[k].t = "src"
                THEN stack'[Len(stack)].out[k].t \in {"datasrc", "emptysrc"}
                ELSE stack'[Len(stack)].out[k] = Top.raw[k])]_vars

\* C15 happens: a media-embed placeholder of an id with a file document and an
\* existing file was rewritten to a data URI while the list held an entry, and an
\* anchor recorded later got the ordinal that follows the entries of before.
C15_Witness ==
    \E m \in Medias : \E k \in Recorded :
        /\ m < k
        /\ log[m].found
        /\ log[m].repl.t = "datasrc"
        /\ log[m].len0 > 0
        /\ log[k].depth = 1
        /\ log[k].ord = log[m].len0 + 1

Trimmed(s) ==
    LET ns == {i \in DOMAIN s : s[i] # " "}
    IN  IF ns = {} THEN <<>>
        ELSE SubSeq(s, CHOOSE i \in ns : \A j \in ns : i <= j,
                       CHOOSE i \in ns : \A j \in ns : j <= i)

KindDirectory(kind) ==
    CASE kind = IMAGE -> "images" [] kind = AUDIO -> "audios" [] kind = VIDEO -> "videos"

C19_RepeatedDanglingAnchors ==
    \A j \in Links : \A k \in Links :
        (/\ j < k
         /\ log[j].kind = None
         /\ log[j].id = log[k].id
         /\ log[j].text = log[k].text)
        => (/\ log[j].repl = log[k].repl
            /\ log[j].repl.t = "txt"
            /\ log[j].repl.s = Trimmed(log[j].text)
            /\ \A i \in {j, k} :
                /\ ~log[i].recorded
                /\ log[i].idx1 = log[i].idx0
                /\ log[i].pos = log[i].len0)

\* C19 happens: the same dangling anchor stands before and after a recorded
\* anchor of one text, so that the two are handled at different running indexes.
C19_Witness ==
    \E j \in Links : \E m \in Recorded : \E k \in Links :
        /\ j < m /\ m < k
        /\ log[j].kind = None
        /\ log[j].id = log[k].id
        /\ log[j].text = log[k].text
        /\ log[j].depth = log[m].depth /\ log[m].depth = log[k].depth
        /\ log[j].field = log[k].field
        /\ log[k].idx0 = log[j].idx0 + 1

\* C20: get_question writes to no store and leaves the raw fields of the
\* question alone: over every step of the call the five stores and the
\* question's raw_question_html and raw_explanation_html stay what they were.
C20_NoSideEffects ==
    [][/\ db' = db
       /\ question'.found = question.found
       /\ question'.raw_question_html = question.raw_question_html
       /\ question'.raw_explanation_html = question.raw_explanation_html]_vars

\* C20 happens: get_question returned a question whose body and explanation
\* were both rewritten, with an asset recorded from inside a fragment.
C20_Witness ==
    /\ pc = "done"
    /\ question.found
    /\ question.processed_question_html # question.raw_question_html
    /\ question.processed_explanation_html # question.raw_explanation_html
    /\ \E k \in Recorded : log[k].depth = 2
    /\ Len(question.inline_assets) >= 2

----------------------------------------------------------------------------
(* database.py: the Database wrapper over the Mongo collections            *)

\* An _id is an ObjectId or a string.  v is the string form: str(ObjectId(v)) = v.
ObjectId(v) == [ty |-> "ObjectId", v |-> v]
StrId(v) == [ty |-> "str", v |-> v]
\* The strings bson.ObjectId accepts (24 hexadecimal digits); for any other
\* string ObjectId(...) raises InvalidId
ObjectIdStrings == {"5f0a", "5f0b"}
\* str(doc["_id"])
str(id) == id.v

\* self.db[collection_name]: a collection that was never written to is empty
Collection(m, collection_name) ==
    IF collection_name \in DOMAIN m THEN m[collection_name] ELSE <<>>

\* Database.find_documents(collection_name, {field: value})
find_documents(m, c, collection_name, field, value) ==
    IF c.db # 0
    THEN SelectSeq(Collection(m, collection_name),
                   LAMBDA d : field \in DOMAIN d /\ d[field] = value)
    ELSE <<>>

\* {"$set": updates} applied to a document
SetFields(d, updates) ==
    [f \in DOMAIN d \cup DOMAIN updates |-> IF f \in DOMAIN updates THEN updates[f] ELSE d[f]]

\* The filter of update_one when every document_id is used as a string
StringFilter(document_id) == StrId(document_id)

\* The filter of update_one: {"_id": ObjectId(document_id)}, and
\* {"_id": document_id} when ObjectId(document_id) raises
IdFilter(document_id) ==
    IF document_id \in ObjectIdStrings THEN ObjectId(document_id) ELSE StrId(document_id)

\* Database.update_document(collection_name, document_id, updates): the
\* result (matched_count > 0) and the collections after update_one
update_document(m, c, collection_name, document_id, updates) ==
    LET coll == Collection(m, collection_name)
        hits == {i \in DOMAIN coll : coll[i]._id = IdFilter(document_id)}
        first == CHOOSE i \in hits : \A j \in hits : i <= j
    IN  IF c.db = 0 \/ hits = {}
        THEN [result |-> FALSE, mongo |-> m, updates |-> 0]
        ELSE [result |-> TRUE,
              mongo |-> [m EXCEPT ![collection_name][first] = SetFields(coll[first], updates)],
              updates |-> 1]

----------------------------------------------------------------------------
(* services.py: QuestionService                                            *)

QUESTIONS_COLLECTION == "Questions"

\* A document of the Questions collection as Question.model_validate takes it
QuestionDoc(id, question_id, is_favorite, is_marked) ==
    [_id |-> id, question_id |-> question_id, is_favorite |-> is_favorite,
     is_marked |-> is_marked, notes |-> "", updated_at |-> 0]

\* get_question_by_id: the first document with the question_id, or None
get_question_by_id(m, c, question_id) ==
    LET docs == find_documents(m, c, QUESTIONS_COLLECTION, "question_id", question_id)
    IN  IF docs # <<>> THEN [found |-> TRUE, doc |-> docs[1]]
        ELSE [found |-> FALSE, doc |-> QuestionDoc(StrId(""), "", FALSE, FALSE)]

\* _update_question_field(question_id, field, value) at time now: the result,
\* the collections afterwards and the number of update_one calls that matched
update_question_field(m, c, question_id, field, value, now) ==
    LET question_doc == find_documents(m, c, QUESTIONS_COLLECTION, "question_id", question_id)
    IN  IF question_doc = <<>>
        THEN [result |-> FALSE, mongo |-> m, updates |-> 0]
        ELSE update_document(m, c, QUESTIONS_COLLECTION, str(question_doc[1]._id),
                             (field :> value) @@ ("updated_at" :> now))

\* is_favorite written as it is stored
SameValue(b) == b
\* not question.is_favorite / not question.is_marked
Negated(b) == ~b

\* datetime.utcnow(): the calls of a run are made one after the other
Now == Len(calls) + 1

QuestionIds == {"q1", "q2"}
NotesTexts == {"", "n"}

\* The Questions collection: at most one document of question_id "q1" with any
\* kind of _id and any flags, followed by at most one document, of question_id
\* "q1" too or of "q2"; the _id values are distinct; db_client connected or not
\* (db is None)
InitServices ==
    /\ \E first \in {<<>>} \cup
            {<<QuestionDoc(id, "q1", f, k)>> :
                id \in {ObjectId("5f0a"), StrId("5f0a"), StrId("q-1")},
                f \in BOOLEAN, k \in BOOLEAN},
          second \in {<<>>} \cup {<<QuestionDoc(StrId("q-2"), q, TRUE, FALSE)>> : q \in QuestionIds}
                        \cup {<<QuestionDoc(ObjectId("5f0a"), "q2", TRUE, FALSE)>>} :
        /\ \A i \in DOMAIN first : \A j \in DOMAIN second : first[i]._id # second[j]._id
        /\ mongo = (QUESTIONS_COLLECTION :> (first \o second))
    /\ \E handle \in {0, 1} :
        conn = [_instance |-> 1, has_client |-> TRUE, client |-> handle, db |-> handle,
                made |-> 1]
    /\ calls = <<>>
    /\ render = NoRender
    /\ session_state = FirstSessionState
    /\ viewer = NoScreen
    /\ db = [c \in Collections |-> <<>>]
    /\ question = NoQuestion
    /\ all_inline_assets = <<>>
    /\ stack = <<>>
    /\ pc = "services"
    /\ log = <<>>
    /\ probe = NoProbe

\* What a call leaves in the history
ServiceCall(op, question_id, q, value, r) ==
    [op |-> op, question_id |-> question_id, found |-> q.found, value |-> value,
     result |-> r.result, updates |-> r.updates, before |-> mongo, after |-> r.mongo]

toggle_favorite ==
    /\ pc = "services"
    /\ Len(calls) < MaxCalls
    /\ \E question_id \in QuestionIds :
        LET q == get_question_by_id(mongo, conn, question_id)
            value == Negated(q.doc.is_favorite)
            r == IF q.found
                 THEN update_question_field(mongo, conn, question_id, "is_favorite", value, Now)
                 ELSE [result |-> FALSE, mongo |-> mongo, updates |-> 0]
        IN  /\ mongo' = r.mongo
            /\ calls' = Append(calls, ServiceCall("toggle_favorite", question_id, q, value, r))
    /\ UNCHANGED <<hydration, conn, render, session_state, viewer>>

toggle_marked ==
    /\ pc = "services"
    /\ Len(calls) < MaxCalls
    /\ \E question_id \in QuestionIds :
        LET q == get_question_by_id(mongo, conn, question_id)
            value == Negated(q.doc.is_marked)
            r == IF q.found
                 THEN update_question_field(mongo, conn, question_id, "is_marked", value, Now)
                 ELSE [result |-> FALSE, mongo |-> mongo, updates |-> 0]
        IN  /\ mongo' = r.mongo
            /\ calls' = Append(calls, ServiceCall("toggle_marked", question_id, q, value, r))
    /\ UNCHANGED <<hydration, conn, render, session_state, viewer>>

update_notes ==
    /\ pc = "services"
    /\ Len(calls) < MaxCalls
    /\ \E question_id \in QuestionIds, notes \in NotesTexts :
        LET q == get_question_by_id(mongo, conn, question_id)
            r == update_question_field(mongo, conn, question_id, "notes", notes, Now)
        IN  /\ mongo' = r.mongo
            /\ calls' = Append(calls, ServiceCall("update_notes", question_id, q, notes, r))
    /\ UNCHANGED <<hydration, conn, render, session_state, viewer>>

NextServices ==
    \/ toggle_favorite
    \/ toggle_marked
    \/ update_notes

SpecServices == InitServices /\ [][NextServices]_vars

----------------------------------------------------------------------------
(* Properties of services.py                                               *)

\* The calls of one method of QuestionService
CallsOf(op) == {k \in DOMAIN calls : calls[k].op = op}
\* The Questions collection before and after call k
Before(k) == calls[k].before[QUESTIONS_COLLECTION]
After(k) == calls[k].after[QUESTIONS_COLLECTION]
\* The documents of the question of call k that the service can reach
DocsOf(k) ==
    IF conn.db = 0 THEN {}
    ELSE {i \in DOMAIN Before(k) : Before(k)[i].question_id = calls[k].question_id}
\* The document find_documents puts first
FirstOf(k) == CHOOSE i \in DocsOf(k) : \A j \in DocsOf(k) : i <= j
\* The documents call k changed
Changed(k) == {i \in DOMAIN Before(k) : After(k)[i] # Before(k)[i]}

\* C21: toggle_favorite on an existing question writes is_favorite as the
\* negation of the stored value and returns the result of the update, so that
\* two successive toggles restore the value; on a question that does not exist
\* it returns False and updates nothing.
C21_ToggleFavoriteNegates ==
    /\ \A k \in CallsOf("toggle_favorite") :
        IF DocsOf(k) # {}
        THEN /\ After(k)[FirstOf(k)].is_favorite = ~Before(k)[FirstOf(k)].is_favorite
             /\ calls[k].updates = 1
             /\ calls[k].result
        ELSE /\ ~calls[k].result
             /\ calls[k].updates = 0
             /\ calls[k].after = calls[k].before
    /\ \A k \in CallsOf("toggle_favorite") :
        (/\ k + 1 \in CallsOf("toggle_favorite")
         /\ calls[k + 1].question_id = calls[k].question_id
         /\ DocsOf(k) # {})
        => After(k + 1)[FirstOf(k)].is_favorite = Before(k)[FirstOf(k)].is_favorite

\* What holds of toggle_favorite: a call that returns True has written the
\* negation to one document, and a call that returns False has written nothing.
C21_ToggleFavoriteWhenMatched ==
    \A k \in CallsOf("toggle_favorite") :
        IF calls[k].result
        THEN /\ DocsOf(k) # {}
             /\ Cardinality(Changed(k)) = 1
             /\ \A i \in Changed(k) :
                    After(k)[i].is_favorite = ~Before(k)[FirstOf(k)].is_favorite
        ELSE calls[k].after = calls[k].before

\* C22: toggle_marked on an existing question writes is_marked as the negation
\* of the stored value and leaves is_favorite and notes as they are; on a
\* question that does not exist it returns False and updates nothing.
C22_ToggleMarkedNegates ==
    \A k \in CallsOf("toggle_marked") :
        IF DocsOf(k) # {}
        THEN /\ After(k)[FirstOf(k)].is_marked = ~Before(k)[FirstOf(k)].is_marked
             /\ \A i \in DOMAIN Before(k) :
                    /\ After(k)[i].is_favorite = Before(k)[i].is_favorite
                    /\ After(k)[i].notes = Before(k)[i].notes
        ELSE /\ ~calls[k].result
             /\ calls[k].updates = 0
             /\ calls[k].after = calls[k].before

\* What holds of toggle_marked: no call changes is_favorite or notes of any
\* document, and a call that returns True has written the negation.
C22_ToggleMarkedFrame ==
    \A k \in CallsOf("toggle_marked") :
        /\ \A i \in DOMAIN Before(k) :
                /\ After(k)[i].is_favorite = Before(k)[i].is_favorite
                /\ After(k)[i].notes = Before(k)[i].notes
        /\ calls[k].result => \A i \in Changed(k) :
                After(k)[i].is_marked = ~Before(k)[FirstOf(k)].is_marked


\* The _id values update_document can find again from their string form: an
\* ObjectId, and a string that is not the string form of an ObjectId
FoundByString(id) == id.ty = "ObjectId" \/ id.v \notin ObjectIdStrings

----------------------------------------------------------------------------
(* database.py: the Database singleton and create_document                 *)

\* An instance is made for every construction
AlwaysNew(c, fresh) == [c EXCEPT !._instance = fresh, !.has_client = FALSE]

\* Database.__new__: the class attribute _instance is set by the first
\* construction and returned by every later one; fresh is the new object
new(c, fresh) ==
    IF c._instance = 0
    THEN [c EXCEPT !._instance = fresh, !.has_client = FALSE]
    ELSE c

\* What MongoClient(...) and the ismaster command can do in __init__
Outcomes == {"ok", "ConnectionFailure"}

\* Database.__init__ on the instance __new__ returned: the connection is set
\* up when the instance has no attribute client yet; handle is the MongoClient
init(c, outcome, handle) ==
    IF c.has_client THEN c
    ELSE IF outcome = "ok"
    THEN [c EXCEPT !.has_client = TRUE, !.client = handle, !.db = handle,
                   !.made = c.made + 1]
    ELSE [c EXCEPT !.has_client = TRUE, !.client = 0, !.db = 0,
                   !.made = c.made + 1]

\* Database.get_collection(collection_name): None when db is None
get_collection(c, collection_name) ==
    IF c.db # 0 THEN [kind |-> "collection", v |-> collection_name]
    ELSE [kind |-> "None", v |-> ""]

\* A document that has no _id yet
NoId == [ty |-> "absent", v |-> ""]
\* The ObjectId insert_one generates for the n-th call
GeneratedIds == <<"5f01", "5f02", "5f03", "5f04", "5f05", "5f06">>

\* insert_one without the unique index on _id
InsertAlways(coll, document, n) ==
    LET id == IF document._id = NoId THEN ObjectId(GeneratedIds[n]) ELSE document._id
    IN  [raised |-> FALSE, inserted_id |-> id,
         coll |-> Append(coll, [document EXCEPT !._id = id])]

\* collection.insert_one(document): a document without _id gets a generated
\* ObjectId; an _id the collection already holds raises DuplicateKeyError
insert_one(coll, document, n) ==
    LET id == IF document._id = NoId THEN ObjectId(GeneratedIds[n]) ELSE document._id
    IN  IF \E i \in DOMAIN coll : coll[i]._id = id
        THEN [raised |-> TRUE, inserted_id |-> id, coll |-> coll]
        ELSE [raised |-> FALSE, inserted_id |-> id,
              coll |-> Append(coll, [document EXCEPT !._id = id])]

\* Database.create_document(collection_name, document): what is returned or
\* raised, and the collections afterwards
create_document(m, c, collection_name, document, n) ==
    IF get_collection(c, collection_name).kind = "None"
    THEN [kind |-> "None", v |-> "", mongo |-> m]
    ELSE LET result == insert_one(Collection(m, collection_name), document, n)
         IN  IF result.raised
             THEN [kind |-> "DuplicateKeyError", v |-> "", mongo |-> m]
             ELSE [kind |-> "str", v |-> str(result.inserted_id),
                   mongo |-> [m EXCEPT ![collection_name] = result.coll]]

CollectionNames == {"sources", "Questions"}
\* The documents given to create_document: without _id, and with the _id ""
\* that Source(...).model_dump(by_alias=True) carries
Documents ==
    {[_id |-> id, name |-> n] : id \in {NoId, StrId("")}, n \in {"a", "b"}}

\* The class before its first construction, over empty collections
InitDatabase ==
    /\ mongo = [n \in CollectionNames |-> <<>>]
    /\ conn = NoInstance
    /\ calls = <<>>
    /\ render = NoRender
    /\ session_state = FirstSessionState
    /\ viewer = NoScreen
    /\ db = [c \in Collections |-> <<>>]
    /\ question = NoQuestion
    /\ all_inline_assets = <<>>
    /\ stack = <<>>
    /\ pc = "database"
    /\ log = <<>>
    /\ probe = NoProbe

\* What a call leaves in the history
DatabaseCall(op, outcome, collection_name, document, ret, c, m) ==
    [op |-> op, outcome |-> outcome, collection_name |-> collection_name, document |-> document,
     ret |-> ret, conn_before |-> conn, conn_after |-> c,
     before |-> mongo, after |-> m]

\* Database(): __new__, then __init__ on what it returned
Construct ==
    /\ pc = "database"
    /\ Len(calls) < MaxCalls
    /\ \E outcome \in Outcomes :
        LET c == init(new(conn, Now), outcome, Now)
        IN  /\ conn' = c
            /\ calls' = Append(calls,
                    DatabaseCall("Database", outcome, "", [_id |-> NoId, name |-> ""],
                                 [kind |-> "instance", v |-> ""], c, mongo))
    /\ UNCHANGED <<hydration, mongo, render, session_state, viewer>>

GetCollection ==
    /\ pc = "database"
    /\ Len(calls) < MaxCalls
    /\ conn._instance # 0
    /\ \E collection_name \in CollectionNames :
        calls' = Append(calls,
                    DatabaseCall("get_collection", "", collection_name,
                                 [_id |-> NoId, name |-> ""],
                                 get_collection(conn, collection_name), conn, mongo))
    /\ UNCHANGED <<hydration, mongo, conn, render, session_state, viewer>>

CreateDocument ==
    /\ pc = "database"
    /\ Len(calls) < MaxCalls
    /\ conn._instance # 0
    /\ \E collection_name \in CollectionNames, document \in Documents :
        LET r == create_document(mongo, conn, collection_name, document, Now)
        IN  /\ mongo' = r.mongo
            /\ calls' = Append(calls,
                    DatabaseCall("create_document", "", collection_name, document,
                                 [kind |-> r.kind, v |-> r.v], conn, r.mongo))
    /\ UNCHANGED <<hydration, conn, render, session_state, viewer>>

NextDatabase ==
    \/ Construct
    \/ GetCollection
    \/ CreateDocument

SpecDatabase == InitDatabase /\ [][NextDatabase]_vars

----------------------------------------------------------------------------
(* Properties of database.py                                               *)

\* C24: Database is a singleton: every construction returns the same
\* instance, and the connection is set up at most once: a construction on an
\* instance that has its client leaves client and db as they are.
C24_Singleton ==
    /\ \A j \in CallsOf("Database"), k \in CallsOf("Database") :
        calls[j].conn_after._instance = calls[k].conn_after._instance
    /\ conn.made <= 1
    /\ \A k \in CallsOf("Database") :
        calls[k].conn_before.has_client =>
            /\ calls[k].conn_after.client = calls[k].conn_before.client
            /\ calls[k].conn_after.db = calls[k].conn_before.db

\* C24 happens: a construction that connected was followed by a construction
\* during which the server could not be reached.
C24_Witness ==
    \E j \in CallsOf("Database"), k \in CallsOf("Database") :
        /\ j < k
        /\ calls[j].outcome = "ok"
        /\ calls[k].outcome = "ConnectionFailure"
        /\ calls[k].conn_after.db # 0


\* The calls of create_document that were made with a connection
Connected(k) == calls[k].conn_before.db # 0
\* The named collection before and after call k
CollBefore(k) == Collection(calls[k].before, calls[k].collection_name)
CollAfter(k) == Collection(calls[k].after, calls[k].collection_name)
\* Call k appended the given document, under the id it returned, to the named
\* collection and changed nothing else
InsertedGiven(k) ==
    /\ calls[k].ret.kind = "str"
    /\ Len(CollAfter(k)) = Len(CollBefore(k)) + 1
    /\ SubSeq(CollAfter(k), 1, Len(CollBefore(k))) = CollBefore(k)
    /\ LET d == CollAfter(k)[Len(CollAfter(k))]
       IN  /\ str(d._id) = calls[k].ret.v
           /\ d.name = calls[k].document.name
           /\ calls[k].document._id # NoId => d._id = calls[k].document._id
    /\ \A n \in CollectionNames \ {calls[k].collection_name} :
            calls[k].after[n] = calls[k].before[n]

\* C25 as stated: with a connection create_document inserts the given document
\* and returns the string form of its id; without one get_collection and
\* create_document return None and nothing is inserted or raised.
C25_CreateAlwaysInserts ==
    /\ \A k \in CallsOf("create_document") :
        IF Connected(k) THEN InsertedGiven(k)
        ELSE calls[k].ret.kind = "None" /\ calls[k].after = calls[k].before
    /\ \A k \in CallsOf("get_collection") :
        ~Connected(k) => calls[k].ret.kind = "None"

\* The _id of the document of call k is already in the named collection
DuplicateKey(k) ==
    \E i \in DOMAIN CollBefore(k) : CollBefore(k)[i]._id = calls[k].document._id

\* C25: with a connection create_document inserts the given document and
\* returns the string form of its id, unless insert_one raises: a document
\* whose _id the collection already holds raises DuplicateKeyError out of
\* create_document and nothing is inserted; without a connection
\* get_collection and create_document return None, nothing is inserted or
\* raised.
C25_CreateInsertsUnlessDuplicate ==
    /\ \A k \in CallsOf("create_document") :
        IF ~Connected(k)
        THEN calls[k].ret.kind = "None" /\ calls[k].after = calls[k].before
        ELSE IF DuplicateKey(k)
        THEN calls[k].ret.kind = "DuplicateKeyError" /\ calls[k].after = calls[k].before
        ELSE InsertedGiven(k)
    /\ \A k \in CallsOf("get_collection") :
        IF Connected(k)
        THEN calls[k].ret = [kind |-> "collection", v |-> calls[k].collection_name]
        ELSE calls[k].ret.kind = "None"

\* C25 happens: with a connection a document was inserted under the _id it
\* came with, and a second document with the same _id was refused.
C25_Witness ==
    \E j \in CallsOf("create_document"), k \in CallsOf("create_document") :
        /\ j < k
        /\ calls[j].document._id # NoId
        /\ InsertedGiven(j)
        /\ Connected(k)
        /\ calls[k].ret.kind = "DuplicateKeyError"

\* C25 happens for a document without _id: it was stored under a generated
\* ObjectId whose string form was returned.
C25_WitnessGenerated ==
    \E k \in CallsOf("create_document") :
        /\ calls[k].document._id = NoId
        /\ InsertedGiven(k)
        /\ calls[k].ret.v \in {GeneratedIds[n] : n \in DOMAIN GeneratedIds}

\* C25 happens without a connection: create_document returned None.
C25_WitnessNoConnection ==
    \E k \in CallsOf("create_document") : ~Connected(k) /\ calls[k].ret.kind = "None"


----------------------------------------------------------------------------
(* services.py: QuestionService.render_question_html                       *)

\* old occurs in s
Contains(s, old) ==
    \E i \in 1..(Len(s) - Len(old) + 1) : SubSeq(s, i, i + Len(old) - 1) = old

\* str.replace(old, new_) for a non-empty old: one pass from the left over the
\* occurrences that do not overlap; what was put in is not looked at again
RECURSIVE replace(_, _, _)
replace(s, old, new_) ==
    IF Len(s) < Len(old) THEN s
    ELSE IF SubSeq(s, 1, Len(old)) = old
    THEN new_ \o replace(SubSeq(s, Len(old) + 1, Len(s)), old, new_)
    ELSE <<s[1]>> \o replace(Tail(s), old, new_)

MEDIA_COLLECTION == "Media"
\* A media document with the attributes render_question_html reads; the
\* description "" stands for a description that is None or empty
Media(media_id, type, path, description, content) ==
    [media_id |-> media_id, type |-> type, path |-> path,
     description |-> description, content |-> content]

\* get_media_item_by_id: the first document with the media_id, or None
get_media_item_by_id(m, c, media_id) ==
    LET docs == find_documents(m, c, MEDIA_COLLECTION, "media_id", media_id)
    IN  IF docs # <<>> THEN [found |-> TRUE, item |-> docs[1]]
        ELSE [found |-> FALSE, item |-> Media("", "", "", "", <<>>)]

\* The element that stands for a media item
replacement_html(media_item) ==
    IF ~media_item.found THEN <<>>
    ELSE LET item == media_item.item
         IN  CASE item.type = "page" ->
                    <<"<div class='media-page'>">> \o item.content \o <<"</div>">>
               [] item.type = "image" ->
                    <<"<img src='", item.path, "' alt='",
                      IF item.description # "" THEN item.description ELSE "Image", "'>">>
               [] item.type = "video" ->
                    <<"<video controls src='", item.path, "'></video>">>
               [] item.type = "audio" ->
                    <<"<audio controls src='", item.path, "'></audio>">>
               [] OTHER -> <<>>

\* The loop of render_question_html from entry k of media_placeholders on
RECURSIVE render_from(_, _, _, _, _)
render_from(m, c, html, media_placeholders, k) ==
    IF k > Len(media_placeholders) THEN html
    ELSE LET placeholder_info == media_placeholders[k]
             media_item == get_media_item_by_id(m, c, placeholder_info.media_id)
         IN  render_from(m, c,
                         replace(html, placeholder_info.placeholder,
                                 replacement_html(media_item)),
                         media_placeholders, k + 1)

\* render_question_html(question).  A Question of models.py has no attribute
\* text (nor media_placeholders), so reading it raises AttributeError; an
\* object that has the attributes the method reads is rendered.
render_question_html(m, c, env, text, media_placeholders) ==
    IF env = "models.Question"
    THEN [raised |-> TRUE, html |-> <<>>]
    ELSE [raised |-> FALSE, html |-> render_from(m, c, text, media_placeholders, 1)]

\* The characters of a text; "A" and "B" are what placeholders are made of
Chars == {"x", "A", "B"}
Texts == UNION {[1..n -> Chars] : n \in 0..MaxText}
Placeholders == {<<"A">>, <<"B">>, <<"A", "B">>}
MediaItemIds == {"m1", "m2"}
PlaceholderInfos == [placeholder : Placeholders, media_id : MediaItemIds]
\* What the question is: a Question of models.py, or an object with the
\* attributes text and media_placeholders as the tests of the method build it
Envs == {"models.Question", "text"}

InitRender ==
    /\ \E first \in {<<>>} \cup
            {<<Media("m1", "page", "", "", content)>> : content \in {<<"x">>, <<"A">>}}
            \cup {<<Media("m1", "image", "p.jpg", d, <<>>)>> : d \in {"", "d"}}
            \cup {<<Media("m1", type, "p", "", <<>>)>> : type \in {"video", "audio", "pdf"}},
          second \in {<<>>, <<Media("m2", "image", "q.jpg", "", <<>>)>>} :
        mongo = (MEDIA_COLLECTION :> (first \o second))
    /\ \E env \in Envs, text \in Texts,
          media_placeholders \in UNION {[1..n -> PlaceholderInfos] : n \in 0..2} :
        /\ env = "models.Question" => text = <<>> /\ media_placeholders = <<>>
        /\ render = [NoRender EXCEPT !.env = env, !.text = text,
                                  !.media_placeholders = media_placeholders]
    /\ conn = [_instance |-> 1, has_client |-> TRUE, client |-> 1, db |-> 1, made |-> 1]
    /\ calls = <<>>
    /\ session_state = FirstSessionState
    /\ viewer = NoScreen
    /\ db = [c \in Collections |-> <<>>]
    /\ question = NoQuestion
    /\ all_inline_assets = <<>>
    /\ stack = <<>>
    /\ pc = "render"
    /\ log = <<>>
    /\ probe = NoProbe

RenderQuestionHtml ==
    /\ pc = "render"
    /\ ~render.called
    /\ LET r == render_question_html(mongo, conn, render.env, render.text,
                                     render.media_placeholders)
       IN  render' = [render EXCEPT !.called = TRUE, !.raised = r.raised,
                                    !.html = r.html]
    /\ UNCHANGED <<hydration, mongo, conn, calls, session_state, viewer>>

NextRender == RenderQuestionHtml

SpecRender == InitRender /\ [][NextRender]_vars

----------------------------------------------------------------------------
(* Properties of render_question_html                                      *)

\* The placeholders listed in the question
Listed == {render.media_placeholders[k].placeholder : k \in DOMAIN render.media_placeholders}

\* C26: render_question_html returns the text in which every occurrence of
\* each listed placeholder is replaced by the element of its media item, or by
\* nothing when the item is not found, so that no listed placeholder remains.
C26_NoPlaceholderRemains ==
    render.called =>
        /\ ~render.raised
        /\ \A placeholder \in Listed : ~Contains(render.html, placeholder)

\* What holds of render_question_html for a question that has a text: the
\* characters that are part of no listed placeholder are all kept, in their
\* order, and a text in which no listed placeholder occurs is returned as it is.
C26_TextIsKept ==
    (render.called /\ render.env = "text") =>
        /\ ~render.raised
        /\ LET plain(s) == SelectSeq(s, LAMBDA ch : ch = "x")
           IN  \E i \in 0..Len(render.html) :
                plain(SubSeq(render.html, 1, i)) = plain(render.text)
        /\ (\A placeholder \in Listed : ~Contains(render.text, placeholder))
            => render.html = render.text


\* The same for a question that has a text: no listed placeholder remains in
\* what is returned.
C26_NoPlaceholderRemainsInText ==
    (render.called /\ render.env = "text") =>
        \A placeholder \in Listed : ~Contains(render.html, placeholder)

\* No listed placeholder is part of an element put in for a listed one, and
\* the listed placeholders are single characters
Separate ==
    /\ \A k \in DOMAIN render.media_placeholders :
        LET info == render.media_placeholders[k]
            by == replacement_html(get_media_item_by_id(mongo, conn, info.media_id))
        IN  /\ Len(info.placeholder) = 1
            /\ \A placeholder \in Listed : ~Contains(by, placeholder)

\* What holds of a question that has a text: when the elements put in contain
\* no listed placeholder and the listed placeholders are single characters, no
\* listed placeholder remains in what is returned.
C26_NoPlaceholderRemainsWhenSeparate ==
    (render.called /\ render.env = "text" /\ Separate) =>
        \A placeholder \in Listed : ~Contains(render.html, placeholder)


----------------------------------------------------------------------------
(* Termination and depth of _hydrate_html                                  *)

\* The tokens of the body and of the markup of page "a" together, in the runs
\* followed to their end
MaxNestedTokens == 2

\* A question with a body and no explanation, over the same stores as Init
InitTerminating ==
    /\ \E lt \in {<<"t">>}, kb \in 1..MaxNestedTokens, kf \in 0..MaxNestedTokens :
        /\ kb + kf <= MaxNestedTokens
        /\ \E body \in TextsOfLen(lt, kb), html \in TextsOfLen(lt, kf), p \in Placements(lt) :
            /\ \E has_html \in (IF kf = 0 THEN BOOLEAN ELSE {TRUE}) :
                db = MakeDb(ContentDoc(has_html, html), p[1], p[2])
            /\ question = Question(body, <<>>)
    /\ all_inline_assets = <<>>
    /\ stack = <<>>
    /\ pc = "start"
    /\ log = <<>>
    /\ probe = NoProbe
    /\ OthersIdle

\* get_question runs to its end: the interpreter takes every callback and
\* every return that can be taken
SpecTerminating == InitTerminating /\ [][Next]_vars /\ WF_vars(Next)

\* The ids whose anchor makes _hydrate_html call itself: a page or a table
\* with markup
Fragments ==
    {i \in Ids : LET asset_type == get_asset_type_from_db(db, i)
                 IN  /\ asset_type \in ContentKinds
                     /\ LET doc == find_one(db, CollectionName(asset_type), i)
                        IN  doc.found /\ doc.has_html /\ doc.html # <<>>}
\* The stored markup of a fragment
MarkupOf(i) == find_one(db, CollectionName(get_asset_type_from_db(db, i)), i).html
\* The fragments a text refers to by an anchor
RefsOf(text) == {text[j].id : j \in {k \in DOMAIN text : text[k].t = "a"}} \cap Fragments

\* There is a chain of at most n references from fragment i to fragment j
RECURSIVE Reaches(_, _, _)
Reaches(i, j, n) ==
    /\ n > 0
    /\ \/ j \in RefsOf(MarkupOf(i))
       \/ \E k \in RefsOf(MarkupOf(i)) : Reaches(k, j, n - 1)

\* The page and table stores hold no reference cycle
Acyclic == \A i \in Fragments : ~Reaches(i, i, Cardinality(Fragments))

Max(S) == IF S = {} THEN 0 ELSE CHOOSE x \in S : \A y \in S : y <= x

\* The longest chain of fragments that starts in a text, followed for at most
\* n references
RECURSIVE NestingOf(_, _)
NestingOf(text, n) ==
    IF n = 0 THEN 0
    ELSE Max({1 + NestingOf(MarkupOf(i), n - 1) : i \in RefsOf(text)})

\* The depth of fragment nesting in the data
NestingDepth ==
    Max({1 + NestingOf(MarkupOf(i), Cardinality(Fragments)) : i \in Fragments})

\* The deepest stack of _hydrate_html calls the run has had so far
Deepest ==
    Max({Len(stack)} \cup
        {IF log[k].e = "call" THEN log[k].depth + 1 ELSE log[k].depth : k \in DOMAIN log})

\* C27: when the page and table stores hold no reference cycle, get_question
\* comes to its end, and up to then there were never more calls of
\* _hydrate_html on the stack than the depth of fragment nesting in the data
\* plus one.
C27_TerminatesWithinNesting ==
    <>(Acyclic => (pc = "done" /\ Deepest <= NestingDepth + 1))

\* The depth at every moment of a run over stores without a cycle.
C27_DepthWithinNesting ==
    Acyclic => (Deepest <= NestingDepth + 1 /\ pc # "RecursionError")

\* C27 happens: without a cycle in the stores the recursion went as deep as
\* the nesting of the data allows, two fragments deep.
C27_Witness ==
    /\ Acyclic
    /\ NestingDepth = 2
    /\ Len(stack) = NestingDepth + 1


----------------------------------------------------------------------------
(* Fragments without markup                                                *)

\* The anchors replaced so far whose id is a page or a table that has no
\* markup: the html field is missing or empty
EmptyFragmentLinks ==
    {k \in DOMAIN log :
        /\ log[k].e = "link"
        /\ log[k].kind \in ContentKinds
        /\ ~Truthy(get_content_asset_html(db, log[k].id, log[k].kind))}

\* C28: an anchor whose id is in the page or table store without markup is
\* treated as a dangling one: it is replaced by its link text alone, nothing is
\* appended to the asset list, _hydrate_html is not called for it and the
\* running index stays where it was.
C28_EmptyFragmentIsDangling ==
    \A k \in EmptyFragmentLinks :
        /\ log[k].repl = PlainReplacement(strip(log[k].text))
        /\ ~log[k].recorded
        /\ log[k].asset = NoAsset
        /\ log[k].pos = log[k].len0
        /\ log[k].idx1 = log[k].idx0
        /\ \A j \in DOMAIN log : log[j].e = "call" => log[j].id # log[k].id

\* C28 happens: after an asset was recorded, an anchor to a page stored
\* without markup was replaced, and get_question came to its end.
C28_Witness ==
    /\ pc = "done"
    /\ \E k \in EmptyFragmentLinks :
        /\ log[k].kind = PAGE
        /\ log[k].idx0 > 0
        /\ log[k].len0 > 0


----------------------------------------------------------------------------
(* main.py: the viewer.  Every interaction runs the script from the top;   *)
(* st.rerun() ends the run and starts the next one.                        *)

\* The values of the sidebar filters: none set, or some filter set
Queries == {"", "f"}
\* options=[10, 20, 50, 100] of the page size selector
PageSizes == {10, 20, 50, 100}
\* The choices of a question, as the radio lists them
Answers == {1, 2}
\* get_question on an id of the list: None, a question without choices, or a
\* question with choices
QuestionKinds == {"missing", "nochoices", "choices"}

\* total_pages = (total_count + page_size - 1) // page_size, one more than the
\* quotient
PagesByQuotient(total_count, page_size) == (total_count \div page_size) + 1

\* total_pages = (total_count + page_size - 1) // page_size
total_pages(total_count, page_size) == (total_count + page_size - 1) \div page_size

\* The reset that leaves show_explanation as it is
ResetSubmitted(ss) == [ss EXCEPT !.submitted = FALSE, !.selected_answer = 0]

\* "Reset question state": submitted, selected_answer and show_explanation
ResetQuestionState(ss) ==
    [ss EXCEPT !.submitted = FALSE, !.selected_answer = 0, !.show_explanation = FALSE]

\* What a script run leaves on the screen
Screen(v, view, controls, items, choice, submit, back) ==
    [v EXCEPT !.view = view, !.controls = controls, !.items = items,
              !.choice = choice, !.submit = submit, !.back = back, !.pending = FALSE]

\* display_question_list up to the page size selector: a changed query resets
\* the page, the count is stored
ListHead(m, ss, v) ==
    LET ss1 == IF v.query # ss.last_query
               THEN [ss EXCEPT !.current_page = 1, !.last_query = v.query]
               ELSE ss
    IN  [ss1 EXCEPT !.total_questions = m.count[v.query]]

\* display_question_list without a button pressed
DisplayQuestionList(m, ss, v) ==
    LET ss1 == ListHead(m, ss, v)
        pages == total_pages(ss1.total_questions, ss1.page_size)
        skip == (ss1.current_page - 1) * ss1.page_size
    IN  [ss |-> ss1,
         v |-> Screen([v EXCEPT !.radio = 0], "list", pages > 1,
                      skip < ss1.total_questions, FALSE, FALSE, FALSE)]

\* The value of the radio: the first option until the user picks another
RadioValue(v) == IF v.radio = 0 THEN 1 ELSE v.radio

\* display_question_detail up to the Submit button
DetailHead(m, ss, v) ==
    IF m.questions[ss.selected_question_id] = "choices" /\ ~ss.submitted
    THEN [ss EXCEPT !.selected_answer = RadioValue(v)]
    ELSE ss

\* display_question_detail without a button pressed
DisplayQuestionDetail(m, ss, v) ==
    LET kind == m.questions[ss.selected_question_id]
        ss1 == DetailHead(m, ss, v)
        choice == kind = "choices" /\ ~ss.submitted
    IN  IF kind = "missing"
        THEN [ss |-> [ss EXCEPT !.selected_question_id = "None"],
              v |-> Screen([v EXCEPT !.radio = 0], "notfound", FALSE, FALSE, FALSE, FALSE, FALSE)]
        ELSE [ss |-> ss1,
              v |-> Screen([v EXCEPT !.radio = IF choice THEN RadioValue(v) ELSE 0],
                           "detail", FALSE, FALSE, choice,
                           kind = "choices" /\ ~ss1.submitted /\ ss1.selected_answer # 0, TRUE)]

\* The sidebar's Actions section raises: question_service of
\* src/question_service.py has no get_question_status
SidebarRaises(m, ss, v) ==
    /\ ss.selected_question_id # "None"
    /\ m.questions[ss.selected_question_id] # "missing"
    /\ ~v.has_status

\* One run of the script in which no button is pressed
Run(m, ss, v) ==
    IF SidebarRaises(m, ss, v)
    THEN [ss |-> ss, v |-> Screen(v, "error", FALSE, FALSE, FALSE, FALSE, TRUE)]
    ELSE IF ss.selected_question_id = "None"
    THEN DisplayQuestionList(m, ss, v)
    ELSE DisplayQuestionDetail(m, ss, v)


\* question_service.get_question_status, called by the sidebar for a question
\* that was found, is defined nowhere in src/: FALSE is question_service as
\* src/question_service.py has it (the call raises AttributeError), TRUE a
\* question_service that answers with the status of the question
StatusServices == BOOLEAN

\* The Questions collection as the viewer sees it: the number of questions
\* each query matches, and what get_question makes of the ids of the list
InitViewer ==
    /\ \E total \in 0..MaxQuestions, kind \in QuestionKinds :
        \E matching \in {0, total \div 2, total} :
            mongo = [count |-> ("" :> total) @@ ("f" :> matching),
                     questions |-> ("q1" :> "choices") @@ ("q2" :> kind)]
    /\ \E has_status \in StatusServices : viewer = [NoScreen EXCEPT !.has_status = has_status]
    /\ session_state = FirstSessionState
    /\ conn = [_instance |-> 1, has_client |-> TRUE, client |-> 1, db |-> 1, made |-> 1]
    /\ calls = <<>>
    /\ render = NoRender
    /\ db = [c \in Collections |-> <<>>]
    /\ question = NoQuestion
    /\ all_inline_assets = <<>>
    /\ stack = <<>>
    /\ pc = "viewer"
    /\ log = <<>>
    /\ probe = NoProbe

\* The handler of a button ended in st.rerun(): the next run is to come
Rerun(v, event) == [v EXCEPT !.pending = TRUE, !.event = event]

\* The script run that starts a session or follows st.rerun()
ScriptRun ==
    /\ pc = "viewer"
    /\ viewer.pending
    /\ LET r == Run(mongo, session_state, viewer)
       IN  /\ session_state' = r.ss
           /\ viewer' = r.v
    /\ UNCHANGED <<hydration, mongo, conn, calls, render>>

\* A widget that no handler reads is used: the script runs once
Interact ==
    /\ pc = "viewer"
    /\ ~viewer.pending
    /\ LET r == Run(mongo, session_state, [viewer EXCEPT !.event = "interact"])
       IN  /\ session_state' = r.ss
           /\ viewer' = r.v
    /\ UNCHANGED <<hydration, mongo, conn, calls, render>>

\* A filter of the sidebar is changed
ChangeFilter ==
    /\ pc = "viewer"
    /\ ~viewer.pending
    /\ \E query \in Queries \ {viewer.query} :
        LET r == Run(mongo, session_state, [viewer EXCEPT !.query = query, !.event = "filter"])
        IN  /\ session_state' = r.ss
            /\ viewer' = r.v
    /\ UNCHANGED <<hydration, mongo, conn, calls, render>>

\* Surprise Me: a random question of the current filter, if there is one
SurpriseMe ==
    /\ pc = "viewer"
    /\ ~viewer.pending
    /\ \E random_id \in {"None"} \cup
            (IF mongo.count[viewer.query] > 0 THEN DOMAIN mongo.questions ELSE {}) :
        IF random_id # "None"
        THEN /\ session_state' = [ResetQuestionState(session_state)
                                    EXCEPT !.selected_question_id = random_id]
             /\ viewer' = Rerun([viewer EXCEPT !.radio =
                                    IF random_id = session_state.selected_question_id
                                    THEN viewer.radio ELSE 0], "surprise")
        ELSE LET r == Run(mongo, session_state, [viewer EXCEPT !.event = "surprise"])
             IN  /\ session_state' = r.ss
                 /\ viewer' = r.v
    /\ UNCHANGED <<hydration, mongo, conn, calls, render>>

\* Back to List, in the Actions section of the sidebar
BackToList ==
    /\ pc = "viewer"
    /\ ~viewer.pending
    /\ viewer.back
    /\ session_state' = [ResetQuestionState(session_state)
                            EXCEPT !.selected_question_id = "None"]
    /\ viewer' = Rerun(viewer, "back")
    /\ UNCHANGED <<hydration, mongo, conn, calls, render>>

\* View Details of a question of the page
ViewDetails ==
    /\ pc = "viewer"
    /\ ~viewer.pending
    /\ viewer.view = "list"
    /\ viewer.items
    /\ \E question_id \in DOMAIN mongo.questions :
        session_state' = [ResetQuestionState(ListHead(mongo, session_state, viewer))
                            EXCEPT !.selected_question_id = question_id]
    /\ viewer' = Rerun(viewer, "view")
    /\ UNCHANGED <<hydration, mongo, conn, calls, render>>

\* A choice of the radio is picked
SelectAnswer ==
    /\ pc = "viewer"
    /\ ~viewer.pending
    /\ viewer.choice
    /\ \E answer \in Answers \ {viewer.radio} :
        LET r == Run(mongo, session_state, [viewer EXCEPT !.radio = answer, !.event = "answer"])
        IN  /\ session_state' = r.ss
            /\ viewer' = r.v
    /\ UNCHANGED <<hydration, mongo, conn, calls, render>>

\* Submit, shown while nothing is submitted and an answer is selected
Submit ==
    /\ pc = "viewer"
    /\ ~viewer.pending
    /\ viewer.submit
    /\ session_state' = [DetailHead(mongo, session_state, viewer)
                            EXCEPT !.submitted = TRUE, !.show_explanation = TRUE]
    /\ viewer' = Rerun(viewer, "submit")
    /\ UNCHANGED <<hydration, mongo, conn, calls, render>>

\* The page size selector
ChangePageSize ==
    /\ pc = "viewer"
    /\ ~viewer.pending
    /\ viewer.view = "list"
    /\ \E new_page_size \in PageSizes \ {session_state.page_size} :
        session_state' = [ListHead(mongo, session_state, viewer)
                            EXCEPT !.page_size = new_page_size, !.current_page = 1]
    /\ viewer' = Rerun(viewer, "size")
    /\ UNCHANGED <<hydration, mongo, conn, calls, render>>

\* display_pagination_controls: First and Prev are disabled on page 1, Next and
\* Last on the last page
Paginate ==
    /\ pc = "viewer"
    /\ ~viewer.pending
    /\ viewer.view = "list"
    /\ viewer.controls
    /\ LET ss == ListHead(mongo, session_state, viewer)
           pages == total_pages(ss.total_questions, ss.page_size)
       IN  \/ /\ ss.current_page > 1
              /\ session_state' = [ss EXCEPT !.current_page = 1]
              /\ viewer' = Rerun(viewer, "first")
           \/ /\ ss.current_page > 1
              /\ session_state' = [ss EXCEPT !.current_page = ss.current_page - 1]
              /\ viewer' = Rerun(viewer, "prev")
           \/ /\ ss.current_page < pages
              /\ session_state' = [ss EXCEPT !.current_page = ss.current_page + 1]
              /\ viewer' = Rerun(viewer, "next")
           \/ /\ ss.current_page < pages
              /\ session_state' = [ss EXCEPT !.current_page = pages]
              /\ viewer' = Rerun(viewer, "last")
    /\ UNCHANGED <<hydration, mongo, conn, calls, render>>

NextViewer ==
    \/ ScriptRun
    \/ Interact
    \/ ChangeFilter
    \/ SurpriseMe
    \/ BackToList
    \/ ViewDetails
    \/ SelectAnswer
    \/ Submit
    \/ ChangePageSize
    \/ Paginate

SpecViewer == InitViewer /\ [][NextViewer]_vars

----------------------------------------------------------------------------
(* Properties of the viewer                                                *)

\* The state of the question being answered is the reset one
IsReset(ss) == ~ss.submitted /\ ss.selected_answer = 0 /\ ~ss.show_explanation

C29_WitnessBack ==
    /\ ~viewer.pending
    /\ viewer.event = "back"
    /\ viewer.view = "list"
    /\ IsReset(session_state)

\* The number of pages of the list as last queried
Pages == total_pages(mongo.count[session_state.last_query], session_state.page_size)

\* C30: over an unchanged store, whatever buttons of the list are pressed,
\* 1 <= current_page <= max(1, total_pages) with total_pages the ceiling of
\* total_count / page_size, and a change of the filter query or of the page
\* size puts current_page back to 1.
C30_PageIsInRange ==
    [][/\ 1 <= session_state'.current_page
       /\ session_state'.current_page <= Max({1, Pages'})
       /\ Pages' * session_state'.page_size >= mongo.count[session_state'.last_query]
       /\ (Pages' - 1) * session_state'.page_size < Max({1, mongo.count[session_state'.last_query]})
       /\ (\/ session_state'.last_query # session_state.last_query
           \/ session_state'.page_size # session_state.page_size)
          => session_state'.current_page = 1]_vars

\* C30 happens: the list stands on its last page, the third, after Last was
\* pressed.
C30_Witness ==
    /\ ~viewer.pending
    /\ viewer.event = "last"
    /\ session_state.current_page = 3
    /\ Pages = 3

====
